---- MODULE Spec2Model ----
(***************************************************************************)
(* One call of AutoApplyWorkflow.run and the agents it drives:             *)
(* ResumeParserAgent, ApplicationOrchestratorAgent, JobAnalyzerAgent and   *)
(* CoverLetterAgent.  A behaviour is one run: Init is the state object     *)
(* built at the top of run from the caller's input, every action is the    *)
(* code between two suspension points (or one iteration of a loop), and    *)
(* the answers of the external collaborators (text extraction, the         *)
(* language model, the clock, Math.random) are chosen with \E.             *)
(***************************************************************************)
EXTENDS Integers, Sequences, FiniteSets, TLC

\* ------------------------------------------------------------------ bounds
MaxJobs == 2          \* longest job list a caller hands to run

\* ------------------------------------------------------- program constants
DefaultMaxApplications == 5
DemoScore == 75
PlaceholderBase == 75
PlaceholderSpread == 20
DefaultMinSalary == 50000

\* A maxApplications the caller omitted.
Absent == -1
\* jobs[index] for an index outside the array: the entry is undefined.
UndefinedJob == 0

\* ------------------------------------------------------------ data values
JobTitle(j) == <<"title", j>>
JobCompany(j) == <<"company", j>>
JobFirstTag(j) == <<"tag", j>>

NoProfile ==
    [defined |-> FALSE, name |-> "", title |-> "", experience |-> "",
     skills |-> <<>>, resumeText |-> {}, remote |-> FALSE, minSalary |-> 0]

CallerProfile ==
    [defined |-> TRUE, name |-> "John Doe", title |-> "Software Engineer",
     experience |-> "3-5 years",
     skills |-> <<"JavaScript", "React", "Node.js", "Python">>,
     resumeText |-> {"experienced", "engineer"}, remote |-> TRUE,
     minSalary |-> 80000]

\* An entry of errors: the text before the colon and the message after it.
Err(text, detail) == [text |-> text, detail |-> detail]
\* An entry of logs (the timestamp is advisory and left out).
\* arg is the job id or the count the message interpolates.
Log(text, arg, detail, type) ==
    [text |-> text, arg |-> arg, detail |-> detail, type |-> type]

NoResumeFileProvided == Err("No resume file provided", "")
AnalysisPlaceholder == Err("Profile and job data required for analysis", "")
CoverLetterPlaceholder ==
    Err("Profile and job data required for cover letter generation", "")
CallerError == Err("reported by the caller", "")

Min(a, b) == IF a <= b THEN a ELSE b

RECURSIVE MapErrorsToLogs(_)
\* parseResult.errors?.map(e => ({message: e, type: "error"}))
MapErrorsToLogs(es) ==
    IF es = <<>> THEN <<>>
    ELSE <<Log(Head(es).text, 0, Head(es).detail, "error")>>
             \o MapErrorsToLogs(Tail(es))

\* errors.filter(e => e !== placeholder)
FilterOut(es, placeholder) == SelectSeq(es, LAMBDA e : e # placeholder)

\* ------------------------------------------------- resume text extraction
NoFile == "none"

\* The lower-cased words of the uploaded resume, and the text the PDF branch
\* substitutes when pdf.js fails.
ResumeText == {"python", "react", "gardening"}
PdfUnavailableText == {"pdf", "parsing", "is", "currently", "unavailable"}

\* The head of the fixed vocabulary, in its order, with skill.toLowerCase().
CommonSkills == <<"JavaScript", "TypeScript", "React", "Python">>
LowerCase(skill) ==
    CASE skill = "JavaScript" -> "javascript"
      [] skill = "TypeScript" -> "typescript"
      [] skill = "React" -> "react"
      [] skill = "Python" -> "python"
      [] OTHER -> skill

\* Vocabulary order, one entry per skill whose lower-cased form the text holds.
extractSkillsFromText(text) ==
    SelectSeq(CommonSkills, LAMBDA skill : LowerCase(skill) \in text)

WordUnsupported == "Word documents not yet supported. Please upload a PDF or text file."
UnsupportedFileType == "Unsupported file type. Please upload a PDF or text file."

\* parseResumeFile: the text and skills, or the Error it throws.  pdfParses
\* says whether pdf.js read the file; its failure is swallowed into a
\* fallback text.
parseResumeFile(fileType, pdfParses) ==
    IF fileType = "text/plain"
    THEN [ok |-> TRUE, text |-> ResumeText,
          skills |-> extractSkillsFromText(ResumeText), message |-> ""]
    ELSE IF fileType = "application/pdf"
    THEN IF pdfParses
         THEN [ok |-> TRUE, text |-> ResumeText,
               skills |-> extractSkillsFromText(ResumeText), message |-> ""]
         ELSE [ok |-> TRUE, text |-> PdfUnavailableText, skills |-> <<>>,
               message |-> ""]
    ELSE IF fileType = "application/msword"
    THEN [ok |-> FALSE, text |-> {}, skills |-> <<>>, message |-> WordUnsupported]
    ELSE [ok |-> FALSE, text |-> {}, skills |-> <<>>,
          message |-> UnsupportedFileType]

\* --------------------------------------------------- ResumeParserAgent
\* What the model may answer to the enhancement prompt: the call fails, the
\* text is no JSON, or a JSON object that gives a title and leaves out the
\* experience and the skills (a field left out is "" / hasSkills FALSE).
EnhanceAnswers ==
    { [kind |-> "callFails", title |-> "", experience |-> "",
       hasSkills |-> FALSE, skills |-> <<>>],
      [kind |-> "notJSON", title |-> "", experience |-> "",
       hasSkills |-> FALSE, skills |-> <<>>],
      [kind |-> "json", title |-> "Staff Engineer", experience |-> "",
       hasSkills |-> FALSE, skills |-> <<>>] }

DemoProfile(parsed) ==
    [defined |-> TRUE, name |-> "Candidate", title |-> "Professional",
     experience |-> "0-2 years", skills |-> parsed.skills,
     resumeText |-> parsed.text, remote |-> FALSE,
     minSalary |-> DefaultMinSalary]

FailedToParseResume == "Failed to parse resume"

\* parseResume: every failure inside its try block (extraction, the model
\* call, JSON.parse) is rethrown as Error("Failed to parse resume").
\* invoked says whether this.llm.invoke was called.
parseResume(fileType, pdfParses, llm, answer) ==
    LET parsed == parseResumeFile(fileType, pdfParses) IN
    IF ~parsed.ok
    THEN [ok |-> FALSE, invoked |-> FALSE, profile |-> NoProfile,
          message |-> FailedToParseResume]
    ELSE IF ~llm
    THEN [ok |-> TRUE, invoked |-> FALSE, profile |-> DemoProfile(parsed),
          message |-> ""]
    ELSE IF answer.kind # "json"
    THEN [ok |-> FALSE, invoked |-> TRUE, profile |-> NoProfile,
          message |-> FailedToParseResume]
    ELSE [ok |-> TRUE, invoked |-> TRUE,
          profile |->
              [defined |-> TRUE, name |-> "Candidate",
               title |-> IF answer.title # "" THEN answer.title
                         ELSE "Professional",
               experience |-> IF answer.experience # "" THEN answer.experience
                              ELSE "0-2 years",
               skills |-> IF answer.hasSkills THEN answer.skills
                          ELSE parsed.skills,
               resumeText |-> parsed.text, remote |-> FALSE,
               minSalary |-> DefaultMinSalary],
          message |-> ""]

\* ResumeParserAgent.process: the stage's result {parsedProfile, errors}.
ResumeParserProcess(fileType, errs, pdfParses, llm, answer) ==
    IF fileType = NoFile
    THEN [parsedProfile |-> NoProfile, invoked |-> FALSE,
          errors |-> Append(errs, NoResumeFileProvided)]
    ELSE LET r == parseResume(fileType, pdfParses, llm, answer) IN
         IF r.ok
         THEN [parsedProfile |-> r.profile, invoked |-> r.invoked,
               errors |-> FilterOut(errs, NoResumeFileProvided)]
         ELSE [parsedProfile |-> NoProfile, invoked |-> r.invoked,
               errors |-> Append(errs, Err("Resume parsing failed", r.message))]

\* ------------------------------------------------------ JobAnalyzerAgent
NoSkillGap ==
    [defined |-> FALSE, missing |-> <<>>, strong |-> <<>>,
     recommended |-> <<>>, analysis |-> ""]

\* What the model may answer to the analysis prompt.  In a JSON answer a
\* field left out (or falsy) is 0 / "" / FALSE.
FitAnswers ==
    { [kind |-> "notJSON", score |-> 0, reason |-> "", isMatch |-> FALSE,
       hasGap |-> FALSE],
      [kind |-> "json", score |-> 40, reason |-> "Partial overlap",
       isMatch |-> TRUE, hasGap |-> TRUE] }

\* error.message of a failed call and of a failed JSON.parse
FailureMessage(kind) ==
    IF kind = "callFails" THEN "fetch failed" ELSE "Unexpected token in JSON"

\* A faulty slice: skills.slice(0, 2).
FirstTwo(skills) == SubSeq(skills, 1, Min(2, Len(skills)))

\* skills.slice(0, 3)
FirstThree(skills) == SubSeq(skills, 1, Min(3, Len(skills)))

DemoReason ==
    "Demo Mode: API Key missing. Estimated good fit based on basic criteria."

\* analyzeJobFit: {score, reason, isMatch, skillGap}, or the Error it throws.
analyzeJobFit(profile, job, llm, answer) ==
    IF ~llm
    THEN [ok |-> TRUE, invoked |-> FALSE, message |-> "", score |-> DemoScore,
          reason |-> DemoReason, isMatch |-> TRUE,
          skillGap |-> [defined |-> TRUE, missing |-> <<"Advanced TypeScript">>,
                        strong |-> FirstThree(profile.skills),
                        recommended |-> <<"System Design", "Cloud Architecture">>,
                        analysis |-> "Basic skill gap analysis in demo mode"]]
    ELSE IF answer.kind # "json"
    THEN [ok |-> FALSE, invoked |-> TRUE,
          message |-> FailureMessage(answer.kind), score |-> 0,
          reason |-> "", isMatch |-> FALSE, skillGap |-> NoSkillGap]
    ELSE [ok |-> TRUE, invoked |-> TRUE, message |-> "", score |-> answer.score,
          reason |-> IF answer.reason # "" THEN answer.reason
                     ELSE "Analysis failed",
          isMatch |-> answer.isMatch,
          skillGap |-> IF answer.hasGap
                       THEN [defined |-> TRUE, missing |-> <<"Kubernetes">>,
                             strong |-> <<"React">>, recommended |-> <<"Go">>,
                             analysis |-> "from the model"]
                       ELSE [defined |-> TRUE, missing |-> <<>>, strong |-> <<>>,
                             recommended |-> <<>>,
                             analysis |-> "Skill gap analysis not available"]]

\* JobAnalyzerAgent.process: the fields run reads off the stage's result.
\* hasScore / matchReason "" / NoSkillGap stand for fields left undefined.
JobAnalyzerProcess(profile, job, errs, llm, answer) ==
    IF ~profile.defined \/ job = UndefinedJob
    THEN [hasScore |-> FALSE, matchScore |-> 0, matchReason |-> "",
          isMatch |-> FALSE, skillGap |-> NoSkillGap, invoked |-> FALSE,
          errors |-> Append(errs, AnalysisPlaceholder)]
    ELSE LET a == analyzeJobFit(profile, job, llm, answer) IN
         IF a.ok
         THEN [hasScore |-> TRUE, matchScore |-> a.score,
               matchReason |-> a.reason, isMatch |-> a.isMatch,
               skillGap |-> a.skillGap, invoked |-> a.invoked,
               errors |-> FilterOut(errs, AnalysisPlaceholder)]
         ELSE [hasScore |-> FALSE, matchScore |-> 0, matchReason |-> "",
               isMatch |-> FALSE, skillGap |-> NoSkillGap,
               invoked |-> a.invoked,
               errors |-> Append(errs, Err("Job analysis failed", a.message))]

\* ------------------------------------------------------ CoverLetterAgent
NoLetter ==
    [kind |-> "undefined", name |-> "", title |-> "", skills |-> <<>>,
     jobTitle |-> <<>>, company |-> <<>>, tag |-> <<>>]

\* The raw text the model returns for a letter, verbatim.
ModelLetter ==
    [kind |-> "model", name |-> "", title |-> "", skills |-> <<>>,
     jobTitle |-> <<>>, company |-> <<>>, tag |-> <<>>]

CoverAnswers == {"callFails", "text"}

\* Odd job ids carry tags, even ones carry none.
JobTags(j) == IF j % 2 = 1 THEN <<JobFirstTag(j)>> ELSE <<>>

\* A faulty generateCoverLetter: the template is signed with the placeholder
\* name instead of profile.name.
generateCoverLetterUnsigned(profile, job, llm, answer) ==
    IF ~llm
    THEN [ok |-> TRUE, invoked |-> FALSE, message |-> "",
          letter |-> [kind |-> "template", name |-> "Candidate",
                      title |-> profile.title,
                      skills |-> FirstThree(profile.skills),
                      jobTitle |-> JobTitle(job), company |-> JobCompany(job),
                      tag |-> IF JobTags(job) # <<>> THEN Head(JobTags(job))
                              ELSE <<"technology">>]]
    ELSE IF answer = "callFails"
    THEN [ok |-> FALSE, invoked |-> TRUE,
          message |-> FailureMessage("callFails"), letter |-> NoLetter]
    ELSE [ok |-> TRUE, invoked |-> TRUE, message |-> "", letter |-> ModelLetter]

\* generateCoverLetter: the letter (the interpolated parts of the template in
\* demo mode), or the Error it throws.
generateCoverLetter(profile, job, llm, answer) ==
    IF ~llm
    THEN [ok |-> TRUE, invoked |-> FALSE, message |-> "",
          letter |-> [kind |-> "template", name |-> profile.name,
                      title |-> profile.title,
                      skills |-> FirstThree(profile.skills),
                      jobTitle |-> JobTitle(job), company |-> JobCompany(job),
                      tag |-> IF JobTags(job) # <<>> THEN Head(JobTags(job))
                              ELSE <<"technology">>]]
    ELSE IF answer = "callFails"
    THEN [ok |-> FALSE, invoked |-> TRUE,
          message |-> FailureMessage("callFails"), letter |-> NoLetter]
    ELSE [ok |-> TRUE, invoked |-> TRUE, message |-> "", letter |-> ModelLetter]

\* CoverLetterAgent.process: {coverLetter, errors}.
CoverLetterProcess(profile, job, errs, llm, answer) ==
    IF ~profile.defined \/ job = UndefinedJob
    THEN [coverLetter |-> NoLetter, invoked |-> FALSE,
          errors |-> Append(errs, CoverLetterPlaceholder)]
    ELSE LET g == generateCoverLetter(profile, job, llm, answer) IN
         IF g.ok
         THEN [coverLetter |-> g.letter, invoked |-> g.invoked,
               errors |-> FilterOut(errs, CoverLetterPlaceholder)]
         ELSE [coverLetter |-> NoLetter, invoked |-> g.invoked,
               errors |->
                   Append(errs, Err("Cover letter generation failed", g.message))]

\* ------------------------------------------ ApplicationOrchestratorAgent
\* What the model may answer to the prioritization prompt for n jobs: the
\* call fails, the text is no JSON, a JSON object without priorities, or a
\* JSON object whose priorities are: the indices in order, reversed (a valid
\* ranking that reorders), index 0 n times (duplicates), all but the last
\* index (partial), the out-of-range index n first, or the out-of-range
\* index n in the last place.
RankingLists(n) ==
    { [i \in 1..n |-> i - 1],
      [i \in 1..n |-> n - i],
      [i \in 1..n |-> 0],
      [i \in 1..(n - 1) |-> i - 1],
      <<n>>,
      [i \in 1..n |-> IF i < n THEN i - 1 ELSE n] }

RankingAnswers(n) ==
    { [kind |-> k, priorities |-> <<>>] :
          k \in {"callFails", "notJSON", "noPriorities"} }
    \cup { [kind |-> "json", priorities |-> p] : p \in RankingLists(n) }

MapOfUndefined == "Cannot read properties of undefined (reading 'map')"
IdOfUndefined == "Cannot read properties of undefined (reading 'id')"
PushOfUndefined == "Cannot read properties of undefined (reading 'push')"

InvokeOfNull == "Cannot read properties of null (reading 'invoke')"

\* A faulty prioritizeJobs: it does not test this.llm, calls the missing
\* client and lets process catch the failure.
prioritizeJobsUnguarded(jobs, llm, answer) ==
    IF ~llm
    THEN [ok |-> FALSE, invoked |-> TRUE, jobs |-> <<>>, message |-> InvokeOfNull]
    ELSE IF answer.kind \in {"callFails", "notJSON"}
    THEN [ok |-> FALSE, invoked |-> TRUE, jobs |-> <<>>,
          message |-> FailureMessage(answer.kind)]
    ELSE IF answer.kind = "noPriorities"
    THEN [ok |-> FALSE, invoked |-> TRUE, jobs |-> <<>>,
          message |-> MapOfUndefined]
    ELSE [ok |-> TRUE, invoked |-> TRUE,
          jobs |-> [i \in 1..Len(answer.priorities) |->
                       IF answer.priorities[i] < Len(jobs)
                       THEN jobs[answer.priorities[i] + 1]
                       ELSE UndefinedJob],
          message |-> ""]

\* prioritizeJobs: the ranked jobs, or the Error it throws.
prioritizeJobs(jobs, llm, answer) ==
    IF ~llm
    THEN [ok |-> TRUE, invoked |-> FALSE, jobs |-> jobs, message |-> ""]
    ELSE IF answer.kind \in {"callFails", "notJSON"}
    THEN [ok |-> FALSE, invoked |-> TRUE, jobs |-> <<>>,
          message |-> FailureMessage(answer.kind)]
    ELSE IF answer.kind = "noPriorities"
    THEN [ok |-> FALSE, invoked |-> TRUE, jobs |-> <<>>,
          message |-> MapOfUndefined]
    ELSE [ok |-> TRUE, invoked |-> TRUE,
          jobs |-> [i \in 1..Len(answer.priorities) |->
                       IF answer.priorities[i] < Len(jobs)
                       THEN jobs[answer.priorities[i] + 1]
                       ELSE UndefinedJob],
          message |-> ""]

\* What the model may answer to the decision prompt: the call fails, the
\* text is no JSON, or a JSON object whose shouldApply is true, false or
\* left out.
DecisionAnswers == {"callFails", "notJSON", "yes", "no", "noField"}

\* A faulty shouldApply: the demo branch accepts at the threshold too.
shouldApplyAtThreshold(profile, job, matchScore, llm, answer) ==
    IF ~llm
    THEN [threw |-> FALSE, invoked |-> FALSE, defined |-> TRUE,
          result |-> matchScore >= 70]
    ELSE IF answer \in {"callFails", "notJSON"}
    THEN [threw |-> TRUE, invoked |-> TRUE, defined |-> FALSE, result |-> FALSE]
    ELSE [threw |-> FALSE, invoked |-> TRUE, defined |-> answer # "noField",
          result |-> answer = "yes"]

\* shouldApply: the boolean it resolves to (undefined when the model's JSON
\* has no shouldApply), or that it throws.
shouldApply(profile, job, matchScore, llm, answer) ==
    IF ~llm
    THEN [threw |-> FALSE, invoked |-> FALSE, defined |-> TRUE,
          result |-> matchScore > 70]
    ELSE IF answer \in {"callFails", "notJSON"}
    THEN [threw |-> TRUE, invoked |-> TRUE, defined |-> FALSE, result |-> FALSE]
    ELSE [threw |-> FALSE, invoked |-> TRUE, defined |-> answer # "noField",
          result |-> answer = "yes"]

\* state.maxApplications || 5
MaxApps(maxApplications) ==
    IF maxApplications = Absent \/ maxApplications = 0
    THEN DefaultMaxApplications
    ELSE maxApplications

\* 75 + Math.random() * 20 lies in [75, 95): its two ends stand for it.
PlaceholderScores == {PlaceholderBase, PlaceholderBase + PlaceholderSpread - 1}

\* A faulty ApplicationRecord: the id leaves out the sequence number.
NewApplicationWithoutSequence(job, now, processedCount, score) ==
    [id |-> <<job, now>>, jobId |-> job,
     jobTitle |-> JobTitle(job), company |-> JobCompany(job),
     status |-> "PENDING", matchScore |-> score, matchReason |-> "",
     coverLetter |-> NoLetter]

\* The placeholder ApplicationRecord of the queuing loop; now is Date.now().
NewApplication(job, now, processedCount, score) ==
    [id |-> <<job, now, processedCount>>, jobId |-> job,
     jobTitle |-> JobTitle(job), company |-> JobCompany(job),
     status |-> "PENDING", matchScore |-> score, matchReason |-> "",
     coverLetter |-> NoLetter]

\* A faulty log: the copy starts a new logs array instead of spreading the
\* old one.
logReplacing(s, text, arg, detail, type) ==
    [s EXCEPT !.logs = <<Log(text, arg, detail, type)>>, !.logsDefined = TRUE]

\* ApplicationOrchestratorAgent.log: a copy of s with one more log entry.
log(s, text, arg, detail, type) ==
    [s EXCEPT !.logs = Append(@, Log(text, arg, detail, type)),
              !.logsDefined = TRUE]

\* A faulty guard: it forgets the profile.
MissingJobsOnly(s) == ~s.jobsDefined \/ Len(s.jobs) = 0

\* A faulty guard: it forgets the job list.
MissingProfileOnly(s) == ~s.profile.defined

\* The guard at the top of process.
MissingProfileOrJobs(s) ==
    ~s.profile.defined \/ ~s.jobsDefined \/ Len(s.jobs) = 0

\* The object run hands to orchestrator.process.
ProcessInput(s) ==
    [s EXCEPT !.resumeFile = NoFile, !.applications = <<>>,
              !.applicationsDefined = FALSE, !.currentJobIndex = Absent,
              !.skillGap = NoSkillGap]

\* The catch block of process.
OrchestrationFailed(cs, message) ==
    log([cs EXCEPT !.status = "error"], "Orchestration failed", 0, message,
        "error")

\* run copies six fields of the orchestrator's result into its state.
MergeOrchestrateResult(s, result) ==
    [s EXCEPT !.jobs = result.jobs, !.jobsDefined = result.jobsDefined,
              !.applications = result.applications,
              !.applicationsDefined = result.applicationsDefined,
              !.currentJobIndex = result.currentJobIndex,
              !.status = result.status, !.errors = result.errors,
              !.logs = result.logs, !.logsDefined = result.logsDefined]

\* A faulty find: it takes the first job of the list whatever its id.
FindJobFirst(jobs, jobId) ==
    IF jobs = <<>> THEN [found |-> FALSE, threw |-> FALSE, job |-> UndefinedJob]
    ELSE IF Head(jobs) = UndefinedJob
    THEN [found |-> FALSE, threw |-> TRUE, job |-> UndefinedJob]
    ELSE [found |-> TRUE, threw |-> FALSE, job |-> Head(jobs)]

\* state.jobs?.find(j => j.id === jobId): the first entry with that id;
\* reading .id of an undefined entry met before it throws.
RECURSIVE FindJob(_, _)
FindJob(jobs, jobId) ==
    IF jobs = <<>> THEN [found |-> FALSE, threw |-> FALSE, job |-> UndefinedJob]
    ELSE IF Head(jobs) = UndefinedJob
    THEN [found |-> FALSE, threw |-> TRUE, job |-> UndefinedJob]
    ELSE IF Head(jobs) = jobId
    THEN [found |-> TRUE, threw |-> FALSE, job |-> jobId]
    ELSE FindJob(Tail(jobs), jobId)

\* ------------------------------------------------------------------ state
VARIABLES
    llm,             \* the agents hold a model client (a key is configured)
    initialState,    \* run's state object as first built from the input
    state,           \* run's state object
    pc,              \* where run is
    thrown,          \* message of the exception run's catch block received
    currentState,    \* process: currentState
    rankingAnswer,   \* what the model answered to the prioritization prompt
    prioritizedJobs, \* process: prioritizedJobs
    applications,    \* process: applications
    processedCount,  \* process: processedCount
    appIndex,        \* run: position of the step-3 loop in state.applications
    currentJob,      \* run: job of the step-3 iteration
    analysisResult,  \* run: analysisResult of the step-3 iteration
    stages,          \* the stage calls and returns of this run, in order
    clock,           \* last value Date.now() returned
    modelCalls,      \* how many times an agent called this.llm.invoke
    parked,          \* a second call of run, suspended at an await
    decision         \* a standalone call of shouldApply

vars ==
    <<llm, initialState, state, pc, thrown, currentState, rankingAnswer,
      prioritizedJobs, applications, processedCount, appIndex, currentJob,
      analysisResult, stages, clock, modelCalls, parked, decision>>

\* What a step of run never touches: the locals of another call of run and
\* the standalone decision call.
outsideVars == <<parked, decision>>

orchestratorVars ==
    <<currentState, rankingAnswer, prioritizedJobs, applications, processedCount>>

\* No prompt was sent.
NoAnswer == [kind |-> "none", priorities |-> <<>>]

\* analysisResult before the first iteration of the step-3 loop.
NoAnalysis ==
    [hasScore |-> FALSE, matchScore |-> 0, matchReason |-> "",
     isMatch |-> FALSE, skillGap |-> NoSkillGap, invoked |-> FALSE,
     errors |-> <<>>]

\* An entry of the stage trace: a stage is called or returns; app is the
\* position of the application it works on (0 outside step 3).
StageEvent(event, stage, app) == [event |-> event, stage |-> stage, app |-> app]

\* One more call of this.llm.invoke, if the stage made one.
Count(invoked) == IF invoked THEN 1 ELSE 0

\* What a caller may pass for errors and logs; an explicit undefined for logs
\* replaces the default [].
CallerErrors == {<<>>, <<NoResumeFileProvided, CallerError>>}
CallerLogs ==
    { [defined |-> TRUE, logs |-> <<>>], [defined |-> FALSE, logs |-> <<>>] }
\* The resume files a caller uploads.
CallerFiles == {NoFile, "text/plain", "image/png"}
\* The readings of Date.now(), which never decrease during a run.
ClockValues == {0, 1}
\* maxApplications: omitted, or a limit below the longest job list.
CallerCaps == {Absent} \cup (0..(MaxJobs - 1))
\* Job lists: absent, or jobs 1..n in that order.
CallerJobs ==
    { [defined |-> FALSE, jobs |-> <<>>] }
    \cup { [defined |-> TRUE, jobs |-> [i \in 1..n |-> i]] : n \in 0..MaxJobs }

\* const state = { status: 'idle', errors: [], logs: [], ...initialState }
NewState(file, profile, j, m, es, ls) ==
    [resumeFile |-> file, profile |-> profile,
     jobs |-> j.jobs, jobsDefined |-> j.defined,
     maxApplications |-> m,
     applications |-> <<>>, applicationsDefined |-> FALSE,
     currentJobIndex |-> Absent, status |-> "idle",
     errors |-> es, logs |-> ls.logs, logsDefined |-> ls.defined,
     skillGap |-> NoSkillGap]

\* The locals of one call of run (and of the process call inside it).
Frame ==
    [initialState |-> initialState, state |-> state, pc |-> pc,
     thrown |-> thrown, currentState |-> currentState,
     rankingAnswer |-> rankingAnswer, prioritizedJobs |-> prioritizedJobs,
     applications |-> applications, processedCount |-> processedCount,
     appIndex |-> appIndex, currentJob |-> currentJob,
     analysisResult |-> analysisResult, stages |-> stages]

\* The locals of a call of run that has just built its state object s.
NewFrame(s) ==
    [initialState |-> s, state |-> s, pc |-> "start", thrown |-> "",
     currentState |-> s, rankingAnswer |-> NoAnswer, prioritizedJobs |-> <<>>,
     applications |-> <<>>, processedCount |-> 0, appIndex |-> 0,
     currentJob |-> UndefinedJob, analysisResult |-> NoAnalysis,
     stages |-> <<>>]

\* There is no second call of run (run 0 is nobody).
NoSecondCall ==
    [run |-> 0,
     frame |-> [NewFrame(NewState(NoFile, NoProfile,
                                  [defined |-> FALSE, jobs |-> <<>>], Absent,
                                  <<>>, [defined |-> TRUE, logs |-> <<>>]))
                    EXCEPT !.pc = "done"]]

\* shouldApply has not been called.
NoDecision ==
    [called |-> FALSE, profile |-> NoProfile, job |-> UndefinedJob,
     matchScore |-> 0, threw |-> FALSE, invoked |-> FALSE,
     defined |-> FALSE, result |-> FALSE]

Init ==
    /\ llm \in BOOLEAN
    /\ \E file \in CallerFiles, profile \in {NoProfile, CallerProfile},
          j \in CallerJobs, m \in CallerCaps,
          es \in CallerErrors, ls \in CallerLogs :
          state = NewState(file, profile, j, m, es, ls)
    /\ initialState = state
    /\ pc = "start"
    /\ thrown = ""
    /\ currentState = state
    /\ rankingAnswer = NoAnswer
    /\ prioritizedJobs = <<>>
    /\ applications = <<>>
    /\ processedCount = 0
    /\ appIndex = 0
    /\ currentJob = UndefinedJob
    /\ analysisResult = NoAnalysis
    /\ stages = <<>>
    /\ clock = 0
    /\ modelCalls = 0
    /\ parked = NoSecondCall
    /\ decision = NoDecision

\* An exception reaches run's catch block.
Throw(message) ==
    /\ thrown' = message
    /\ pc' = "catch"

\* state.logs!.push({message, type})
Push(s, text, arg, type) ==
    [s EXCEPT !.logs = Append(@, Log(text, arg, "", type))]

\* Step 1 up to the await of resumeParser.process.
ResumeBegin ==
    /\ pc = "start"
    /\ IF state.resumeFile = NoFile
       THEN /\ pc' = "step2"
            /\ UNCHANGED <<state, thrown, stages>>
       ELSE IF ~state.logsDefined
       THEN /\ Throw(PushOfUndefined)
            /\ UNCHANGED <<state, stages>>
       ELSE /\ state' = Push(state, "Starting resume parsing", 0, "info")
            /\ stages' = Append(stages, StageEvent("call", "ResumeStage", 0))
            /\ pc' = "resume"
            /\ UNCHANGED thrown
    /\ UNCHANGED <<llm, initialState, orchestratorVars, appIndex, currentJob,
                   analysisResult, clock, modelCalls, outsideVars>>

\* A faulty ResumeReturn: a failed parse leaves the caller's profile in place.
ResumeReturnKeepingProfile ==
    /\ pc = "resume"
    /\ \E pdfParses \in BOOLEAN, answer \in EnhanceAnswers :
          LET parseResult ==
                  ResumeParserProcess(state.resumeFile, state.errors, pdfParses,
                                      llm, answer)
          IN /\ state' = [state EXCEPT
                             !.profile = IF parseResult.parsedProfile.defined
                                         THEN parseResult.parsedProfile ELSE @,
                             !.errors = parseResult.errors,
                             !.logs = @ \o MapErrorsToLogs(parseResult.errors)]
             /\ modelCalls' = modelCalls + Count(parseResult.invoked)
    /\ stages' = Append(stages, StageEvent("return", "ResumeStage", 0))
    /\ pc' = "step2"
    /\ UNCHANGED <<llm, initialState, thrown, orchestratorVars, appIndex,
                   currentJob, analysisResult, clock, outsideVars>>

\* resumeParser.process returns; run merges its profile and errors.
ResumeReturn ==
    /\ pc = "resume"
    /\ \E pdfParses \in BOOLEAN, answer \in EnhanceAnswers :
          LET parseResult ==
                  ResumeParserProcess(state.resumeFile, state.errors, pdfParses,
                                      llm, answer)
          IN /\ state' = [state EXCEPT
                             !.profile = parseResult.parsedProfile,
                             !.errors = parseResult.errors,
                             !.logs = @ \o MapErrorsToLogs(parseResult.errors)]
             /\ modelCalls' = modelCalls + Count(parseResult.invoked)
    /\ stages' = Append(stages, StageEvent("return", "ResumeStage", 0))
    /\ pc' = "step2"
    /\ UNCHANGED <<llm, initialState, thrown, orchestratorVars, appIndex,
                   currentJob, analysisResult, clock, outsideVars>>

\* Step 2 up to the await of prioritizeJobs, or through process when its
\* guard returns at once.
OrchestrateBegin ==
    /\ pc = "step2"
    /\ IF ~(state.jobsDefined /\ Len(state.jobs) > 0)
       THEN /\ pc' = "step3"
            /\ UNCHANGED <<state, thrown, currentState, stages>>
       ELSE IF ~state.logsDefined
       THEN /\ Throw(PushOfUndefined)
            /\ UNCHANGED <<state, currentState, stages>>
       ELSE LET pushed == Push(state, "Starting application orchestration", 0, "info")
                cs == [ProcessInput(pushed) EXCEPT !.status = "processing"]
            IN IF MissingProfileOrJobs(ProcessInput(pushed))
               THEN LET result ==
                            log([cs EXCEPT !.status = "error"],
                                "Profile and jobs required for orchestration",
                                0, "", "error")
                    IN /\ currentState' = result
                       /\ state' = MergeOrchestrateResult(pushed, result)
                       /\ stages' =
                              stages \o
                              <<StageEvent("call", "ApplicationDecisionStage", 0),
                                StageEvent("return", "ApplicationDecisionStage", 0)>>
                       /\ pc' = "step3"
                       /\ UNCHANGED thrown
               ELSE /\ currentState' =
                           log(cs, "Starting application orchestration for jobs",
                               Len(pushed.jobs), "", "info")
                    /\ state' = pushed
                    /\ stages' =
                           Append(stages, StageEvent("call", "JobRankingStage", 0))
                    /\ pc' = "rank"
                    /\ UNCHANGED thrown
    /\ UNCHANGED <<llm, initialState, rankingAnswer, prioritizedJobs, applications,
                   processedCount, appIndex, currentJob, analysisResult, clock,
                   modelCalls, outsideVars>>

\* prioritizeJobs returns or throws into the catch block of process.
RankReturn ==
    /\ pc = "rank"
    /\ \E answer \in RankingAnswers(Len(currentState.jobs)) :
          LET r == prioritizeJobs(currentState.jobs, llm, answer) IN
          /\ rankingAnswer' = IF llm THEN answer ELSE NoAnswer
          /\ modelCalls' = modelCalls + Count(r.invoked)
          /\ IF r.ok
             THEN /\ currentState' =
                         log([currentState EXCEPT !.jobs = r.jobs],
                             "Jobs prioritized by match quality and opportunity",
                             0, "", "info")
                  /\ prioritizedJobs' = r.jobs
                  /\ stages' =
                         stages \o
                         <<StageEvent("return", "JobRankingStage", 0),
                           StageEvent("call", "ApplicationDecisionStage", 0)>>
                  /\ pc' = "queue"
                  /\ UNCHANGED state
             ELSE LET result == OrchestrationFailed(currentState, r.message) IN
                  /\ currentState' = result
                  /\ state' = MergeOrchestrateResult(state, result)
                  /\ stages' =
                         Append(stages, StageEvent("return", "JobRankingStage", 0))
                  /\ pc' = "step3"
                  /\ UNCHANGED prioritizedJobs
    /\ applications' = <<>>
    /\ processedCount' = 0
    /\ UNCHANGED <<llm, initialState, thrown, appIndex, currentJob,
                   analysisResult, clock, outsideVars>>

\* The loop has a next job and the limit is not reached.
LoopContinues ==
    /\ processedCount < Len(prioritizedJobs)
    /\ processedCount < MaxApps(currentState.maxApplications)

\* One iteration of the queuing loop.
QueueApplication ==
    /\ pc = "queue"
    /\ LoopContinues
    /\ LET job == prioritizedJobs[processedCount + 1] IN
       IF job = UndefinedJob
       THEN LET result == OrchestrationFailed(currentState, IdOfUndefined) IN
            /\ currentState' = result
            /\ state' = MergeOrchestrateResult(state, result)
            /\ stages' =
                   Append(stages, StageEvent("return", "ApplicationDecisionStage", 0))
            /\ pc' = "step3"
            /\ UNCHANGED <<applications, processedCount, clock>>
       ELSE \E now \in {t \in ClockValues : t >= clock}, score \in PlaceholderScores :
               /\ applications' =
                      Append(applications,
                             NewApplication(job, now, processedCount, score))
               /\ processedCount' = processedCount + 1
               /\ currentState' = log(currentState, "Queued application for",
                                      job, "", "info")
               /\ clock' = now
               /\ UNCHANGED <<state, pc, stages>>
    /\ UNCHANGED <<llm, initialState, thrown, rankingAnswer, prioritizedJobs,
                   appIndex, currentJob, analysisResult, modelCalls, outsideVars>>

\* A faulty OrchestrateReturn: currentJobIndex counts the ranked jobs.
OrchestrateReturnCountingJobs ==
    /\ pc = "queue"
    /\ ~LoopContinues
    /\ LET result ==
               log([currentState EXCEPT !.applications = applications,
                                        !.applicationsDefined = TRUE,
                                        !.status = "completed",
                                        !.currentJobIndex = Len(prioritizedJobs)],
                   "Orchestration completed. applications queued.",
                   processedCount, "", "info")
       IN /\ currentState' = result
          /\ state' = MergeOrchestrateResult(state, result)
    /\ stages' = Append(stages, StageEvent("return", "ApplicationDecisionStage", 0))
    /\ pc' = "step3"
    /\ UNCHANGED <<llm, initialState, thrown, rankingAnswer, prioritizedJobs,
                   applications, processedCount, appIndex, currentJob,
                   analysisResult, clock, modelCalls, outsideVars>>

\* The loop is over: process returns and run merges the result.
OrchestrateReturn ==
    /\ pc = "queue"
    /\ ~LoopContinues
    /\ LET result ==
               log([currentState EXCEPT !.applications = applications,
                                        !.applicationsDefined = TRUE,
                                        !.status = "completed",
                                        !.currentJobIndex = processedCount],
                   "Orchestration completed. applications queued.",
                   processedCount, "", "info")
       IN /\ currentState' = result
          /\ state' = MergeOrchestrateResult(state, result)
    /\ stages' = Append(stages, StageEvent("return", "ApplicationDecisionStage", 0))
    /\ pc' = "step3"
    /\ UNCHANGED <<llm, initialState, thrown, rankingAnswer, prioritizedJobs,
                   applications, processedCount, appIndex, currentJob,
                   analysisResult, clock, modelCalls, outsideVars>>

\* A faulty ProcessBegin: the loop starts at the last application.
ProcessBeginFromLast ==
    /\ pc = "step3"
    /\ IF state.applicationsDefined /\ Len(state.applications) > 0
          /\ state.profile.defined
       THEN /\ appIndex' = Len(state.applications)
            /\ pc' = "app"
       ELSE /\ pc' = "finish"
            /\ UNCHANGED appIndex
    /\ UNCHANGED <<llm, initialState, state, thrown, orchestratorVars,
                   currentJob, analysisResult, stages, clock, modelCalls,
                   outsideVars>>

\* Step 3's guard: applications exist and a profile exists.
ProcessBegin ==
    /\ pc = "step3"
    /\ IF state.applicationsDefined /\ Len(state.applications) > 0
          /\ state.profile.defined
       THEN /\ appIndex' = 1
            /\ pc' = "app"
       ELSE /\ pc' = "finish"
            /\ UNCHANGED appIndex
    /\ UNCHANGED <<llm, initialState, state, thrown, orchestratorVars,
                   currentJob, analysisResult, stages, clock, modelCalls,
                   outsideVars>>

\* Head of one iteration of the step-3 loop, up to the await of
\* jobAnalyzer.process.
NextApplication ==
    /\ pc = "app"
    /\ IF appIndex > Len(state.applications)
       THEN /\ pc' = "finish"
            /\ UNCHANGED <<state, thrown, appIndex, currentJob, stages>>
       ELSE LET f == FindJob(state.jobs, state.applications[appIndex].jobId) IN
            IF f.threw
            THEN /\ Throw(IdOfUndefined)
                 /\ UNCHANGED <<state, appIndex, currentJob, stages>>
            ELSE IF ~f.found
            THEN /\ appIndex' = appIndex + 1
                 /\ UNCHANGED <<state, pc, thrown, currentJob, stages>>
            ELSE /\ state' = Push(state, "Processing application for", f.job, "info")
                 /\ currentJob' = f.job
                 /\ stages' =
                        Append(stages, StageEvent("call", "FitAnalysisStage", appIndex))
                 /\ pc' = "fit"
                 /\ UNCHANGED <<thrown, appIndex>>
    /\ UNCHANGED <<llm, initialState, orchestratorVars, analysisResult, clock,
                   modelCalls, outsideVars>>

\* A faulty FitReturn: a skill-gap report already in state is kept.
FitReturnKeepingGap ==
    /\ pc = "fit"
    /\ \E answer \in FitAnswers :
          LET result ==
                  JobAnalyzerProcess(state.profile, currentJob, state.errors,
                                     llm, answer)
          IN /\ analysisResult' = result
             /\ state' = [state EXCEPT
                             !.applications[appIndex].matchScore =
                                 IF result.hasScore THEN result.matchScore ELSE 0,
                             !.applications[appIndex].matchReason =
                                 result.matchReason,
                             !.skillGap = IF @.defined THEN @ ELSE result.skillGap,
                             !.errors = result.errors]
             /\ modelCalls' = modelCalls + Count(result.invoked)
    /\ stages' =
           stages \o <<StageEvent("return", "FitAnalysisStage", appIndex),
                       StageEvent("call", "CoverLetterStage", appIndex)>>
    /\ pc' = "cover"
    /\ UNCHANGED <<llm, initialState, thrown, orchestratorVars, appIndex,
                   currentJob, clock, outsideVars>>

\* jobAnalyzer.process returns; run writes its result onto the application.
FitReturn ==
    /\ pc = "fit"
    /\ \E answer \in FitAnswers :
          LET result ==
                  JobAnalyzerProcess(state.profile, currentJob, state.errors,
                                     llm, answer)
          IN /\ analysisResult' = result
             /\ state' = [state EXCEPT
                             !.applications[appIndex].matchScore =
                                 IF result.hasScore THEN result.matchScore ELSE 0,
                             !.applications[appIndex].matchReason =
                                 result.matchReason,
                             !.skillGap = result.skillGap,
                             !.errors = result.errors]
             /\ modelCalls' = modelCalls + Count(result.invoked)
    /\ stages' =
           stages \o <<StageEvent("return", "FitAnalysisStage", appIndex),
                       StageEvent("call", "CoverLetterStage", appIndex)>>
    /\ pc' = "cover"
    /\ UNCHANGED <<llm, initialState, thrown, orchestratorVars, appIndex,
                   currentJob, clock, outsideVars>>

\* A faulty CoverReturn: an application whose analysis found no match is
\* marked REJECTED.
CoverReturnRejecting ==
    /\ pc = "cover"
    /\ \E answer \in CoverAnswers :
          LET coverLetterResult ==
                  CoverLetterProcess(state.profile, currentJob, state.errors,
                                     llm, answer)
          IN /\ state' = Push([state EXCEPT
                                  !.applications[appIndex].coverLetter =
                                      coverLetterResult.coverLetter,
                                  !.applications[appIndex].status =
                                      IF analysisResult.isMatch THEN @
                                      ELSE "REJECTED",
                                  !.errors = coverLetterResult.errors],
                              "Completed processing for", currentJob, "success")
             /\ modelCalls' = modelCalls + Count(coverLetterResult.invoked)
    /\ stages' = Append(stages, StageEvent("return", "CoverLetterStage", appIndex))
    /\ appIndex' = appIndex + 1
    /\ pc' = "app"
    /\ UNCHANGED <<llm, initialState, thrown, orchestratorVars, currentJob,
                   analysisResult, clock, outsideVars>>

\* coverLetterAgent.process returns; the iteration ends.
CoverReturn ==
    /\ pc = "cover"
    /\ \E answer \in CoverAnswers :
          LET coverLetterResult ==
                  CoverLetterProcess(state.profile, currentJob, state.errors,
                                     llm, answer)
          IN /\ state' = Push([state EXCEPT
                                  !.applications[appIndex].coverLetter =
                                      coverLetterResult.coverLetter,
                                  !.errors = coverLetterResult.errors],
                              "Completed processing for", currentJob, "success")
             /\ modelCalls' = modelCalls + Count(coverLetterResult.invoked)
    /\ stages' = Append(stages, StageEvent("return", "CoverLetterStage", appIndex))
    /\ appIndex' = appIndex + 1
    /\ pc' = "app"
    /\ UNCHANGED <<llm, initialState, thrown, orchestratorVars, currentJob,
                   analysisResult, clock, outsideVars>>

\* A faulty Finish: the try block ends without assigning status.
FinishKeepingStatus ==
    /\ pc = "finish"
    /\ IF ~state.logsDefined
       THEN /\ Throw(PushOfUndefined)
            /\ UNCHANGED state
       ELSE /\ state' = Push(state, "Auto-apply workflow completed successfully",
                             0, "success")
            /\ pc' = "done"
            /\ UNCHANGED thrown
    /\ UNCHANGED <<llm, initialState, orchestratorVars, appIndex, currentJob,
                   analysisResult, stages, clock, modelCalls, outsideVars>>

\* The end of the try block: status, the final log, return state.
Finish ==
    /\ pc = "finish"
    /\ IF ~state.logsDefined
       THEN /\ state' = [state EXCEPT !.status = "completed"]
            /\ Throw(PushOfUndefined)
       ELSE /\ state' = Push([state EXCEPT !.status = "completed"],
                             "Auto-apply workflow completed successfully", 0,
                             "success")
            /\ pc' = "done"
            /\ UNCHANGED thrown
    /\ UNCHANGED <<llm, initialState, orchestratorVars, appIndex, currentJob,
                   analysisResult, stages, clock, modelCalls, outsideVars>>

\* A faulty CatchReturn: the returned errors hold the new entry alone.
CatchReturnFresh(s, message) ==
    [s EXCEPT !.status = "error",
              !.errors = <<Err("Workflow failed", message)>>,
              !.logs = Append(@, Log("Workflow execution failed", 0, message,
                                     "error")),
              !.logsDefined = TRUE]

\* The catch block of run: the state it returns.
CatchReturn(s, message) ==
    [s EXCEPT !.status = "error",
              !.errors = Append(@, Err("Workflow failed", message)),
              !.logs = Append(@, Log("Workflow execution failed", 0, message,
                                     "error")),
              !.logsDefined = TRUE]

\* A faulty Catch: the catch block rethrows instead of returning.
CatchRethrows ==
    /\ pc = "catch"
    /\ pc' = "rethrown"
    /\ UNCHANGED <<llm, initialState, state, thrown, orchestratorVars, appIndex,
                   currentJob, analysisResult, stages, clock, modelCalls,
                   outsideVars>>

Catch ==
    /\ pc = "catch"
    /\ state' = CatchReturn(state, thrown)
    /\ pc' = "done"
    /\ UNCHANGED <<llm, initialState, thrown, orchestratorVars, appIndex,
                   currentJob, analysisResult, stages, clock, modelCalls,
                   outsideVars>>

Next ==
    \/ ResumeBegin
    \/ ResumeReturn
    \/ OrchestrateBegin
    \/ RankReturn
    \/ QueueApplication
    \/ OrchestrateReturn
    \/ ProcessBegin
    \/ NextApplication
    \/ FitReturn
    \/ CoverReturn
    \/ Finish
    \/ Catch

Spec == Init /\ [][Next]_vars

\* Every awaited call returns or fails, and the event loop resumes run.
FairSpec == Spec /\ WF_vars(Next)

\* ------------------------------------------- a standalone call of shouldApply
\* Match scores run from 0 to 100.
MaxScore == 100
MatchScores == 0..MaxScore

\* A caller holds a profile, a job and a score it computed before; no call of
\* run is in flight.
DecisionInit ==
    /\ llm \in BOOLEAN
    /\ \E profile \in {CallerProfile,
                        DemoProfile([text |-> ResumeText,
                                     skills |-> extractSkillsFromText(ResumeText)])},
          job \in 1..MaxJobs, score \in MatchScores :
          decision = [NoDecision EXCEPT !.profile = profile, !.job = job,
                                        !.matchScore = score]
    /\ initialState = NoSecondCall.frame.initialState
    /\ state = NoSecondCall.frame.state
    /\ pc = NoSecondCall.frame.pc
    /\ thrown = ""
    /\ currentState = state
    /\ rankingAnswer = NoAnswer
    /\ prioritizedJobs = <<>>
    /\ applications = <<>>
    /\ processedCount = 0
    /\ appIndex = 0
    /\ currentJob = UndefinedJob
    /\ analysisResult = NoAnalysis
    /\ stages = <<>>
    /\ clock = 0
    /\ modelCalls = 0
    /\ parked = NoSecondCall

\* await orchestrator.shouldApply(profile, job, matchScore)
ShouldApplyCall ==
    /\ ~decision.called
    /\ \E answer \in DecisionAnswers :
          LET r == shouldApply(decision.profile, decision.job,
                               decision.matchScore, llm, answer)
          IN /\ decision' = [decision EXCEPT !.called = TRUE,
                                             !.threw = r.threw,
                                             !.invoked = r.invoked,
                                             !.defined = r.defined,
                                             !.result = r.result]
             /\ modelCalls' = modelCalls + Count(r.invoked)
    /\ UNCHANGED <<llm, initialState, state, pc, thrown, orchestratorVars,
                   appIndex, currentJob, analysisResult, stages, clock, parked>>

DecisionNext == ShouldApplyCall

DecisionSpec == DecisionInit /\ [][DecisionNext]_vars

\* ------------------------------------------- two calls of run on one instance
\* The inputs of the two calls: the first uploads a resume and names two
\* jobs, the second brings a profile, one other job and errors of its own,
\* with logs left out or passed as undefined.
FirstInputs ==
    { NewState("text/plain", NoProfile, [defined |-> TRUE, jobs |-> <<1, 2>>],
               Absent, <<>>, [defined |-> TRUE, logs |-> <<>>]) }
SecondInputs ==
    { NewState(NoFile, CallerProfile, [defined |-> TRUE, jobs |-> <<3>>], 1,
               <<NoResumeFileProvided, CallerError>>, ls) : ls \in CallerLogs }

TwoRunInit ==
    /\ llm \in BOOLEAN
    /\ \E a \in FirstInputs, b \in SecondInputs :
          /\ state = a
          /\ parked = [run |-> 2, frame |-> NewFrame(b)]
    /\ initialState = state
    /\ pc = "start"
    /\ thrown = ""
    /\ currentState = state
    /\ rankingAnswer = NoAnswer
    /\ prioritizedJobs = <<>>
    /\ applications = <<>>
    /\ processedCount = 0
    /\ appIndex = 0
    /\ currentJob = UndefinedJob
    /\ analysisResult = NoAnalysis
    /\ stages = <<>>
    /\ clock = 0
    /\ modelCalls = 0
    /\ decision = NoDecision

\* A faulty run: the state object is a field of the workflow instance, so
\* the call that resumes finds the state the other call left.
ResumeSharingState(f) ==
    /\ initialState' = f.initialState
    /\ state' = state
    /\ pc' = f.pc
    /\ thrown' = f.thrown
    /\ currentState' = f.currentState
    /\ rankingAnswer' = f.rankingAnswer
    /\ prioritizedJobs' = f.prioritizedJobs
    /\ applications' = f.applications
    /\ processedCount' = f.processedCount
    /\ appIndex' = f.appIndex
    /\ currentJob' = f.currentJob
    /\ analysisResult' = f.analysisResult
    /\ stages' = f.stages

\* The event loop resumes a call: its locals are the ones it was suspended
\* with (state is a const of the call, currentState a let of process).
Resume(f) ==
    /\ initialState' = f.initialState
    /\ state' = f.state
    /\ pc' = f.pc
    /\ thrown' = f.thrown
    /\ currentState' = f.currentState
    /\ rankingAnswer' = f.rankingAnswer
    /\ prioritizedJobs' = f.prioritizedJobs
    /\ applications' = f.applications
    /\ processedCount' = f.processedCount
    /\ appIndex' = f.appIndex
    /\ currentJob' = f.currentJob
    /\ analysisResult' = f.analysisResult
    /\ stages' = f.stages

\* Where a call is suspended: the awaits of the text extraction and of the
\* model calls.
SuspensionPoints == {"resume", "rank", "fit", "cover"}

\* The running call is suspended at an await (or has returned) and the
\* event loop runs the other call, which is about to start or suspended.
Switch ==
    /\ parked.run # 0
    /\ pc \in SuspensionPoints \cup {"done"}
    /\ parked.frame.pc \in SuspensionPoints \cup {"start"}
    /\ parked' = [run |-> 3 - parked.run, frame |-> Frame]
    /\ Resume(parked.frame)
    /\ UNCHANGED <<llm, clock, modelCalls, decision>>

TwoRunNext ==
    \/ Next
    \/ Switch

TwoRunSpec == TwoRunInit /\ [][TwoRunNext]_vars

\* ------------------------------------ a direct call of orchestrator.process
\* A caller other than run hands process a state object of its own: with or
\* without a profile, with the job list absent, empty or filled.  state is
\* the object the caller holds, and the caller copies the result into it the
\* way run does; the call has returned when pc is "step3".
ProcessInit ==
    /\ llm \in BOOLEAN
    /\ \E profile \in {NoProfile, CallerProfile}, j \in CallerJobs,
          m \in CallerCaps, es \in CallerErrors, ls \in CallerLogs :
          state = NewState(NoFile, profile, j, m, es, ls)
    /\ initialState = state
    /\ pc = "process"
    /\ thrown = ""
    /\ currentState = state
    /\ rankingAnswer = NoAnswer
    /\ prioritizedJobs = <<>>
    /\ applications = <<>>
    /\ processedCount = 0
    /\ appIndex = 0
    /\ currentJob = UndefinedJob
    /\ analysisResult = NoAnalysis
    /\ stages = <<>>
    /\ clock = 0
    /\ modelCalls = 0
    /\ parked = NoSecondCall
    /\ decision = NoDecision

\* process from its first line to the guard's return or to the await of
\* prioritizeJobs.
ProcessCall ==
    /\ pc = "process"
    /\ LET cs == [ProcessInput(state) EXCEPT !.status = "processing"] IN
       IF MissingProfileOrJobs(ProcessInput(state))
       THEN LET result ==
                    log([cs EXCEPT !.status = "error"],
                        "Profile and jobs required for orchestration",
                        0, "", "error")
            IN /\ currentState' = result
               /\ state' = MergeOrchestrateResult(state, result)
               /\ stages' =
                      stages \o
                      <<StageEvent("call", "ApplicationDecisionStage", 0),
                        StageEvent("return", "ApplicationDecisionStage", 0)>>
               /\ pc' = "step3"
       ELSE /\ currentState' =
                   log(cs, "Starting application orchestration for jobs",
                       Len(state.jobs), "", "info")
            /\ stages' = Append(stages, StageEvent("call", "JobRankingStage", 0))
            /\ pc' = "rank"
            /\ UNCHANGED state
    /\ UNCHANGED <<llm, initialState, thrown, rankingAnswer, prioritizedJobs,
                   applications, processedCount, appIndex, currentJob,
                   analysisResult, clock, modelCalls, outsideVars>>

ProcessNext ==
    \/ ProcessCall
    \/ RankReturn
    \/ QueueApplication
    \/ OrchestrateReturn

ProcessSpec == ProcessInit /\ [][ProcessNext]_vars

\* ----------------------------------------------------------------- helpers
IsPrefix(a, b) == Len(a) <= Len(b) /\ SubSeq(b, 1, Len(a)) = a

\* The ApplicationRecords in run's state (none while applications is undefined).
Produced == IF state.applicationsDefined THEN state.applications ELSE <<>>

\* maxApplications as the caller means it: 5 when omitted.
CallerCap ==
    IF initialState.maxApplications = Absent THEN DefaultMaxApplications
    ELSE initialState.maxApplications

\* A list of job postings: no undefined entry, no id twice.
IsJobList(js) ==
    /\ \A i \in 1..Len(js) : js[i] # UndefinedJob
    /\ \A i, j \in 1..Len(js) : js[i] = js[j] => i = j

\* ranked holds exactly the jobs of input, each once.
IsPermutationOf(ranked, input) ==
    /\ Len(ranked) = Len(input)
    /\ IsJobList(ranked)
    /\ {ranked[i] : i \in 1..Len(ranked)} = {input[i] : i \in 1..Len(input)}

\* priorities is a bijection over [0, n).
IsBijection(priorities, n) ==
    /\ Len(priorities) = n
    /\ {priorities[i] : i \in 1..Len(priorities)} = 0..(n - 1)

HasLog(logs, text, arg, type) ==
    \E i \in 1..Len(logs) :
        logs[i].text = text /\ logs[i].arg = arg /\ logs[i].type = type

HasError(errs, text) == \E i \in 1..Len(errs) : errs[i].text = text

\* The caller passed neither errors nor logs, so both start as [].
FreshAccumulators ==
    /\ initialState.errors = <<>>
    /\ initialState.logsDefined
    /\ initialState.logs = <<>>

\* ------------------------------------------------------------------ claims

\* C1: for every maxApplications = k >= 0 (5 when omitted) and every job list
\* of length n handed to the queuing loop with a profile, the loop produces
\* exactly min(k, n) records, each referencing a distinct job of the list,
\* and the number of applications never exceeds the caller's maxApplications.
C1_ApplicationCap ==
    IsJobList(prioritizedJobs) =>
        /\ Len(applications) <= CallerCap
        /\ Len(Produced) <= CallerCap
        /\ currentState.status = "completed" =>
               /\ Len(Produced) = Min(CallerCap, Len(prioritizedJobs))
               /\ \A i \in 1..Len(Produced) :
                      Produced[i].jobId \in
                          {prioritizedJobs[j] : j \in 1..Len(prioritizedJobs)}
               /\ \A i, j \in 1..Len(Produced) :
                      Produced[i].jobId = Produced[j].jobId => i = j

\* C2: a run given a profile, a non-empty job list and maxApplications = 0
\* produces zero ApplicationRecords, ends completed, and logs that zero
\* applications were queued.
C2_Scenario ==
    /\ initialState.maxApplications = 0
    /\ initialState.profile.defined
    /\ initialState.resumeFile = NoFile
    /\ initialState.jobsDefined /\ Len(initialState.jobs) > 0
    /\ initialState.logsDefined

C2_ZeroCap ==
    C2_Scenario =>
        /\ Len(applications) = 0
        /\ Len(Produced) = 0
        /\ pc = "done" =>
               /\ state.status = "completed"
               /\ HasLog(state.logs, "Orchestration completed. applications queued.",
                         0, "info")

\* C3 as stated: no resume file, no profile, jobs = [jobA], maxApplications = 1,
\* no backend: the returned state has exactly one application with matchScore
\* 75 and a cover letter naming jobA's company, status completed, profile
\* undefined, errors empty.
C3_Scenario ==
    /\ ~llm
    /\ initialState.resumeFile = NoFile
    /\ ~initialState.profile.defined
    /\ initialState.jobsDefined /\ initialState.jobs = <<1>>
    /\ initialState.maxApplications = 1
    /\ FreshAccumulators

C3_OneApplicationWithoutProfile ==
    (pc = "done" /\ C3_Scenario) =>
        /\ Len(Produced) = 1
        /\ Produced[1].matchScore = DemoScore
        /\ Produced[1].coverLetter.company = JobCompany(1)
        /\ state.status = "completed"
        /\ ~state.profile.defined
        /\ state.errors = <<>>

\* C3 amended: in that scenario the returned state has no applications at all
\* (the orchestrator refuses to run without a profile and logs it at error
\* level), status completed, profile undefined, errors empty.
C3_NoApplicationWithoutProfile ==
    (pc = "done" /\ C3_Scenario) =>
        /\ ~state.applicationsDefined
        /\ HasLog(state.logs, "Profile and jobs required for orchestration", 0,
                  "error")
        /\ state.status = "completed"
        /\ ~state.profile.defined
        /\ state.errors = <<>>

C3_Witness == pc = "done" /\ C3_Scenario /\ Len(state.logs) = 3

\* C4: a run whose resume file is present but whose extraction fails with the
\* unsupported-type failure ends with exactly one entry in errors, that entry
\* names the unsupported-type failure, the profile is undefined, and with jobs
\* supplied the run still ends completed.
C4_Scenario ==
    /\ initialState.resumeFile = "image/png"
    /\ ~parseResumeFile(initialState.resumeFile, TRUE).ok
    /\ parseResumeFile(initialState.resumeFile, TRUE).message = UnsupportedFileType
    /\ FreshAccumulators

C4_UnsupportedTypeNamed ==
    (pc = "done" /\ C4_Scenario) =>
        /\ Len(state.errors) = 1
        /\ state.errors[1].detail = UnsupportedFileType
        /\ ~state.profile.defined
        /\ (initialState.jobsDefined /\ Len(initialState.jobs) > 0) =>
               state.status = "completed"

\* C5: with a backend, a ranking answer that is not a bijection over
\* [0, len(jobs)) (or is malformed) makes the ranking return the original
\* order; the ranked sequence is always a permutation of the input jobs.
C5_RankingSafety ==
    /\ pc = "queue" =>
           /\ IsPermutationOf(prioritizedJobs, initialState.jobs)
           /\ (rankingAnswer.kind # "none"
               /\ ~(rankingAnswer.kind = "json"
                    /\ IsBijection(rankingAnswer.priorities,
                                   Len(initialState.jobs)))) =>
                  prioritizedJobs = initialState.jobs
    /\ state.jobsDefined => IsPermutationOf(state.jobs, initialState.jobs)

\* C6: every stage execution leaves errors at least as long as it found it,
\* and removes no entry another stage or the caller put there.
C6_ErrorsAppendOnly ==
    [][/\ Len(state'.errors) >= Len(state.errors)
       /\ IsPrefix(state.errors, state'.errors)]_vars

\* C7: logs only grows: after every step of run and of the orchestrator the
\* previous logs are a prefix of the new logs.
C7_LogsAppendOnly ==
    [][/\ IsPrefix(state.logs, state'.logs)
       /\ IsPrefix(currentState.logs, currentState'.logs)
       /\ IsPrefix(initialState.logs, state'.logs)]_vars

C7_Witness ==
    /\ pc = "done"
    /\ thrown = ""
    /\ Len(Produced) = 2
    /\ HasLog(state.logs, "Queued application for", 2, "info")
    /\ HasLog(state.logs, "Completed processing for", 2, "success")
    /\ state.logs[Len(state.logs)].text = "Auto-apply workflow completed successfully"

\* C8: the returned state is completed whenever run reached the end of its
\* try block, whatever errors the stages recorded, and it is error exactly
\* when an exception reached run's catch block.
C8_TerminalStatus ==
    pc = "done" =>
        /\ thrown = "" => state.status = "completed"
        /\ state.status = "error" <=> thrown # ""
        /\ state.status \in {"completed", "error"}

C8_Witness ==
    /\ pc = "done"
    /\ state.status = "completed"
    /\ currentState.status = "error"
    /\ HasError(state.errors, "Resume parsing failed")

\* C9: the catch block returns status error, the errors held before the
\* failure followed by one entry with the exception message, the logs held
\* before followed by one error-level entry, and the same profile, jobs and
\* applications.
C9_CatchPreserves ==
    [][pc = "catch" =>
          /\ pc' = "done"
          /\ state'.status = "error"
          /\ state'.errors = Append(state.errors, Err("Workflow failed", thrown))
          /\ Len(state'.logs) = Len(state.logs) + 1
          /\ IsPrefix(state.logs, state'.logs)
          /\ state'.logs[Len(state'.logs)].type = "error"
          /\ state'.logs[Len(state'.logs)].detail = thrown
          /\ state'.profile = state.profile
          /\ state'.jobs = state.jobs
          /\ state'.jobsDefined = state.jobsDefined
          /\ state'.applications = state.applications
          /\ state'.applicationsDefined = state.applicationsDefined]_vars

C9_Witness ==
    /\ pc = "done"
    /\ thrown # ""
    /\ state.status = "error"
    /\ Len(state.errors) = 3
    /\ state.profile.defined

\* C10: run always terminates and returns a state whose status is completed
\* or error, with its errors and logs.
C10_RunReturns ==
    <>(/\ pc = "done"
       /\ state.status \in {"completed", "error"}
       /\ state.logsDefined)

C10_Witness ==
    /\ pc = "done"
    /\ state.status = "error"
    /\ state.logsDefined
    /\ Len(state.logs) = 1

\* The ids of the jobs a state object names.
JobsOf(s) == {s.jobs[i] : i \in 1..Len(s.jobs)}

\* The log messages that name a job.
JobLogTexts ==
    {"Queued application for", "Processing application for",
     "Completed processing for"}

\* Every record, log entry and error a call holds comes from its own input
\* and its own stages.
OwnRecords(f) ==
    /\ \A i \in 1..Len(f.state.applications) :
           f.state.applications[i].jobId \in JobsOf(f.initialState)
    /\ \A i \in 1..Len(f.state.logs) :
           /\ f.state.logs[i].text \in JobLogTexts =>
                  f.state.logs[i].arg \in JobsOf(f.initialState)
           /\ f.state.logs[i].text \in {"Starting resume parsing",
                                        "Resume parsing failed"} =>
                  f.initialState.resumeFile # NoFile
           /\ f.state.logs[i].text = CallerError.text =>
                  HasError(f.initialState.errors, CallerError.text)
    /\ \A i \in 1..Len(f.state.errors) :
           /\ f.state.errors[i] = CallerError =>
                  HasError(f.initialState.errors, CallerError.text)
           /\ f.state.errors[i].text = "Resume parsing failed" =>
                  f.initialState.resumeFile # NoFile

\* C11: two calls of run on one instance, with different inputs, interleaved
\* at every await of a model call or of the text extraction: a step of one
\* call leaves the other call's locals as they were, a call resumes with
\* exactly the state it was suspended with (so it computes what it computes
\* alone), and the applications, logs and errors each call holds are its own.
C11_RunsIsolated ==
    [][/\ parked'.run = parked.run => parked'.frame = parked.frame
       /\ parked'.run # parked.run =>
              /\ Frame' = parked.frame
              /\ parked'.frame = Frame
       /\ OwnRecords(Frame')
       /\ OwnRecords(parked'.frame)]_vars

\* The second call has run to its end while the first was suspended inside
\* the first iteration of step 3; both hold applications.
C11_Witness ==
    /\ parked.run = 1
    /\ parked.frame.pc = "cover"
    /\ parked.frame.appIndex = 1
    /\ Len(parked.frame.state.applications) = 2
    /\ pc = "done"
    /\ thrown = ""
    /\ Len(state.applications) = 1
    /\ HasError(state.errors, CallerError.text)

\* C12: with no backend, the fit analysis of every profile and job returns
\* score 75, isMatch true, the one fixed reason and a skill-gap report whose
\* strong set is the profile's first three skills; every field of the result
\* is fixed by the profile, so equal inputs give equal results.
C12_DemoFit ==
    (~llm /\ pc = "cover") =>
        /\ analysisResult.hasScore
        /\ analysisResult.matchScore = 75
        /\ analysisResult.isMatch
        /\ analysisResult.matchReason =
               "Demo Mode: API Key missing. Estimated good fit based on basic criteria."
        /\ analysisResult.skillGap.defined
        /\ analysisResult.skillGap.strong =
               SubSeq(state.profile.skills, 1, Min(3, Len(state.profile.skills)))
        /\ analysisResult.skillGap.missing = <<"Advanced TypeScript">>
        /\ analysisResult.skillGap.recommended =
               <<"System Design", "Cloud Architecture">>
        /\ analysisResult.skillGap.analysis =
               "Basic skill gap analysis in demo mode"
        /\ \A i \in 1..appIndex :
               /\ state.applications[i].matchScore = 75
               /\ state.applications[i].matchReason = analysisResult.matchReason

\* The second job of a caller whose profile lists four skills has been
\* analysed in demo mode.
C12_Witness ==
    /\ ~llm
    /\ pc = "cover"
    /\ appIndex = 2
    /\ Len(state.profile.skills) = 4
    /\ Len(analysisResult.skillGap.strong) = 3
    /\ analysisResult.matchScore = 75

\* C13: with no backend, the cover letter of every processed application is
\* the template filled with the candidate's name, title and first three
\* skills and the job's title, company and first tag ("technology" when the
\* job has no tag): it holds the name, the job title and the company
\* verbatim and nothing else varies.
C13_DemoCoverLetter ==
    ~llm =>
        \A i \in 1..Len(Produced) :
            (i < appIndex) =>
                LET letter == Produced[i].coverLetter
                    job == Produced[i].jobId
                IN /\ letter.kind = "template"
                   /\ letter.name = state.profile.name
                   /\ letter.jobTitle = JobTitle(job)
                   /\ letter.company = JobCompany(job)
                   /\ letter.title = state.profile.title
                   /\ letter.skills =
                          SubSeq(state.profile.skills, 1,
                                 Min(3, Len(state.profile.skills)))
                   /\ letter.tag = IF JobTags(job) = <<>> THEN <<"technology">>
                                   ELSE JobTags(job)[1]

\* A demo run has written letters for a job with a tag and a job without.
C13_Witness ==
    /\ ~llm
    /\ pc = "done"
    /\ Len(Produced) = 2
    /\ Produced[1].coverLetter.name = "John Doe"
    /\ Produced[1].coverLetter.tag = JobFirstTag(1)
    /\ Produced[2].coverLetter.tag = <<"technology">>
    /\ Produced[2].coverLetter.company = JobCompany(2)

\* C14: with no backend credential no stage of a run calls the language
\* model, and the missing backend adds nothing to errors: a run given a
\* profile, a non-empty job list and no resume file ends with errors empty.
C14_Scenario ==
    /\ initialState.profile.defined
    /\ initialState.jobsDefined /\ Len(initialState.jobs) > 0
    /\ initialState.resumeFile = NoFile
    /\ FreshAccumulators

C14_DemoSilent ==
    ~llm =>
        /\ modelCalls = 0
        /\ ~decision.invoked
        /\ C14_Scenario => state.errors = <<>>
        /\ (C14_Scenario /\ pc = "done") =>
               /\ state.errors = <<>>
               /\ state.status = "completed"

\* A demo run of that kind has analysed and written letters for two jobs.
C14_Witness ==
    /\ ~llm
    /\ C14_Scenario
    /\ pc = "done"
    /\ modelCalls = 0
    /\ Len(Produced) = 2
    /\ Produced[2].coverLetter.kind = "template"
    /\ Len(stages) = 12

\* C15: when the model call or the JSON parse of the fit analysis fails for
\* an application in step 3, the failure stays inside the stage: errors gains
\* the one entry "Job analysis failed: <message>", logs gains an error-level
\* entry for it, the application gets matchScore 0, and the cover letter
\* stage runs next for that application.
C15_FitFailureContained ==
    [][(pc = "fit" /\ analysisResult'.invoked /\ ~analysisResult'.hasScore) =>
          /\ Len(state'.errors) = Len(state.errors) + 1
          /\ IsPrefix(state.errors, state'.errors)
          /\ state'.errors[Len(state'.errors)].text = "Job analysis failed"
          /\ \E k \in 1..Len(state'.logs) :
                 /\ k > Len(state.logs)
                 /\ state'.logs[k].type = "error"
                 /\ state'.logs[k].text = "Job analysis failed"
          /\ state'.applications[appIndex].matchScore = 0
          /\ pc' = "cover"
          /\ thrown' = ""]_vars

\* C16: with a backend and a successful text extraction, a failing
\* enhancement call (call failure or unparsable answer) does not fail the
\* resume stage: the stage records no failure and yields the demo-mode
\* profile (Candidate, Professional, 0-2 years, the extracted skills, not
\* remote-only, minimum salary 50000).  A profile whose title is not the
\* placeholder is one the enhancement produced.
C16_Scenario ==
    /\ llm
    /\ initialState.resumeFile # NoFile
    /\ parseResumeFile(initialState.resumeFile, TRUE).ok
    /\ FreshAccumulators
    /\ pc = "step2"

C16_EnhancementFallback ==
    C16_Scenario =>
        /\ state.profile.defined
        /\ state.errors = <<>>
        /\ state.profile.title = "Professional" =>
               /\ state.profile.name = "Candidate"
               /\ state.profile.experience = "0-2 years"
               /\ state.profile.skills =
                      parseResumeFile(initialState.resumeFile, TRUE).skills
               /\ ~state.profile.remote
               /\ state.profile.minSalary = 50000

\* C17: a stage invoked without its input (the decision stage without a
\* profile or without jobs; the resume stage without a file) records an error
\* string in errors and a log entry, yields an empty result, and the run goes
\* on to status completed.
C17_InvokedWithoutInput ==
    /\ \E k \in 1..Len(stages) :
           stages[k] = StageEvent("call", "ApplicationDecisionStage", 0)
    /\ ~state.profile.defined \/ ~state.jobsDefined \/ Len(state.jobs) = 0

C17_MissingInputRecorded ==
    /\ C17_InvokedWithoutInput =>
           /\ HasLog(state.logs, "Profile and jobs required for orchestration",
                     0, "error")
           /\ Len(Produced) = 0
           /\ HasError(state.errors, "Profile and jobs required for orchestration")
           /\ (pc = "done" /\ thrown = "") => state.status = "completed"
    /\ \A answer \in EnhanceAnswers, es \in CallerErrors :
           LET r == ResumeParserProcess(NoFile, es, TRUE, llm, answer) IN
           /\ r.errors = Append(es, NoResumeFileProvided)
           /\ ~r.parsedProfile.defined

\* C18: in demo mode shouldApply(profile, job, matchScore) resolves to true
\* exactly when matchScore > 70 (false at 70 and below), for every profile
\* and job, and it does not call the model.
C18_DemoThreshold ==
    (decision.called /\ ~llm) =>
        /\ ~decision.threw
        /\ decision.defined
        /\ decision.result <=> decision.matchScore > 70
        /\ decision.matchScore <= 70 => ~decision.result
        /\ ~decision.invoked
        /\ modelCalls = 0

\* In demo mode a score of exactly 70 was refused.
C18_Witness ==
    /\ decision.called
    /\ ~llm
    /\ decision.matchScore = 70
    /\ ~decision.result
    /\ decision.profile = CallerProfile

\* C19: within one run the status only moves idle -> processing ->
\* completed or error: it is idle when the state object is built, it is
\* processing once a stage has begun, and once completed or error it never
\* changes again.
C19_StatusMonotone ==
    [][/\ pc = "start" => state.status = "idle"
       /\ pc' \in {"resume", "rank", "queue", "fit", "cover"} =>
              state'.status = "processing"
       /\ state.status = "idle" => state'.status \in {"idle", "processing"}
       /\ state.status = "processing" =>
              state'.status \in {"processing", "completed", "error"}
       /\ state.status \in {"completed", "error"} =>
              state'.status = state.status]_vars

\* The place of a stage call in the order of a run: the resume stage, the
\* ranking, the decision stage, then fit analysis and cover letter of
\* application 1, of application 2, ...
StagePlace(e) ==
    CASE e.stage = "ResumeStage" -> 1
      [] e.stage = "JobRankingStage" -> 2
      [] e.stage = "ApplicationDecisionStage" -> 3
      [] e.stage = "FitAnalysisStage" -> 2 + 2 * e.app
      [] e.stage = "CoverLetterStage" -> 3 + 2 * e.app

\* Stages run one at a time and in order: calls and returns alternate, every
\* return is the return of the call before it, the places of the calls only
\* grow, the cover letter of an application is called right after its fit
\* analysis returns, the resume stage runs only when a file was given, and a
\* stage is in flight exactly while run waits for one.
StagesInOrder ==
    /\ \A k \in 1..Len(stages) :
           /\ stages[k].event = (IF k % 2 = 1 THEN "call" ELSE "return")
           /\ k % 2 = 0 =>
                  /\ stages[k].stage = stages[k - 1].stage
                  /\ stages[k].app = stages[k - 1].app
           /\ (k % 2 = 1 /\ k > 2) =>
                  StagePlace(stages[k - 2]) < StagePlace(stages[k])
           /\ stages[k].stage = "ResumeStage" =>
                  initialState.resumeFile # NoFile
           /\ (stages[k].event = "call" /\ stages[k].stage = "CoverLetterStage") =>
                  /\ k > 2
                  /\ stages[k - 2].stage = "FitAnalysisStage"
                  /\ stages[k - 2].app = stages[k].app
           /\ (stages[k].event = "return" /\ stages[k].stage = "FitAnalysisStage"
               /\ k < Len(stages)) =>
                  stages[k + 1].stage = "CoverLetterStage"
    /\ pc \in {"resume", "rank", "queue", "fit", "cover"} <=>
           Len(stages) % 2 = 1

\* The log entries of one kind, in the order they were appended.
LogsOf(texts) == SelectSeq(state.logs, LAMBDA entry : entry.text \in texts)

\* The application a log entry concerns: the first one for the job it names.
ApplicationOf(entry) ==
    CHOOSE i \in 1..Len(Produced) :
        /\ Produced[i].jobId = entry.arg
        /\ \A j \in 1..(i - 1) : Produced[j].jobId # entry.arg

\* C20 as stated: stages run one at a time in the order resume, ranking,
\* decision, then fit analysis and cover letter per application in list
\* order, and every log entry that concerns application i is appended before
\* any log entry that concerns application i+1.
C20_AllLogsPerApplication ==
    /\ StagesInOrder
    /\ (state.applicationsDefined /\ IsJobList(prioritizedJobs)) =>
           LET entries == LogsOf(JobLogTexts) IN
           \A a, b \in 1..Len(entries) :
               a < b => ApplicationOf(entries[a]) <= ApplicationOf(entries[b])

\* C20 amended: the stage order as stated; the "Queued application" entries
\* of the applications the decision stage returns are all appended by that
\* stage, in list order, before step 3 begins, and the step-3 entries
\* (Processing, Completed) of application i are appended, in that order,
\* before any step-3 entry of application i+1.
C20_StagesAndStepThreeLogsInOrder ==
    /\ StagesInOrder
    /\ state.applicationsDefined =>
           /\ LogsOf({"Queued application for"}) =
                  [i \in 1..Len(Produced) |->
                      Log("Queued application for", Produced[i].jobId, "", "info")]
           /\ IsPrefix(LogsOf({"Processing application for",
                                "Completed processing for"}),
                        [k \in 1..(2 * Len(Produced)) |->
                            IF k % 2 = 1
                            THEN Log("Processing application for",
                                     Produced[(k + 1) \div 2].jobId, "", "info")
                            ELSE Log("Completed processing for",
                                     Produced[(k + 1) \div 2].jobId, "", "success")])
           /\ LogsOf(JobLogTexts) =
                  LogsOf({"Queued application for"})
                      \o LogsOf({"Processing application for",
                                  "Completed processing for"})
    /\ ~state.applicationsDefined =>
           LogsOf({"Processing application for", "Completed processing for"}) = <<>>

\* A run has processed two applications for two different jobs in turn.
C20_Witness ==
    /\ pc = "done"
    /\ thrown = ""
    /\ Len(Produced) = 2
    /\ Produced[1].jobId # Produced[2].jobId
    /\ Len(LogsOf({"Processing application for", "Completed processing for"})) = 4
    /\ initialState.resumeFile # NoFile
    /\ stages[1].stage = "ResumeStage"
    /\ stages[Len(stages)] = StageEvent("return", "CoverLetterStage", 2)

\* The decision stage is called without a profile, or with the job list
\* absent or empty.
C21_MissingInput ==
    ~state.profile.defined \/ ~state.jobsDefined \/ Len(state.jobs) = 0

\* C21: process called without a profile, or with an absent or empty job
\* list, returns at once with status error and exactly one more log entry
\* (error level), creates no ApplicationRecords, makes no ranking call, and
\* returns jobs and errors as they were passed in.
C21_GuardReturns ==
    [][(pc = "process" /\ C21_MissingInput) =>
          /\ pc' = "step3"
          /\ currentState'.status = "error"
          /\ currentState'.logs =
                 Append(state.logs,
                        Log("Profile and jobs required for orchestration", 0, "",
                            "error"))
          /\ ~currentState'.applicationsDefined
          /\ currentState'.applications = <<>>
          /\ applications' = <<>>
          /\ modelCalls' = modelCalls
          /\ rankingAnswer' = NoAnswer
          /\ \A k \in 1..Len(stages') : stages'[k].stage # "JobRankingStage"
          /\ currentState'.jobs = state.jobs
          /\ currentState'.jobsDefined = state.jobsDefined
          /\ currentState'.errors = state.errors
          /\ currentState'.profile = state.profile]_vars

\* A caller with a profile and errors of its own called process without a
\* job list, and another with an empty one.
C21_Witness ==
    /\ pc = "step3"
    /\ initialState.profile.defined
    /\ ~initialState.jobsDefined
    /\ initialState.errors # <<>>
    /\ currentState.status = "error"
    /\ Len(currentState.logs) = 1
    /\ stages = <<StageEvent("call", "ApplicationDecisionStage", 0),
                  StageEvent("return", "ApplicationDecisionStage", 0)>>

\* The other fields of record i and every other record stay as they are.
C22_OnlyWrites(i, fields) ==
    /\ Len(state'.applications) = Len(state.applications)
    /\ \A k \in 1..Len(state.applications) :
           \A f \in DOMAIN state.applications[k] :
               (k # i \/ f \notin fields) =>
                   state'.applications[k][f] = state.applications[k][f]

\* C22: in step 3 the fit analysis and the cover letter stage are called
\* with the job the record at hand references, their results (matchScore, 0
\* when the stage produced none, matchReason, coverLetter) are written onto
\* that record of state.applications and onto no other, no step of run after
\* step 2 adds or removes a record, and a run with a profile that reaches its
\* end has processed every record.
C22_ResultsOnOwnRecord ==
    [][/\ pc = "fit" =>
              /\ currentJob = state.applications[appIndex].jobId
              /\ \E answer \in FitAnswers :
                     analysisResult' =
                         JobAnalyzerProcess(state.profile,
                                            state.applications[appIndex].jobId,
                                            state.errors, llm, answer)
              /\ state'.applications[appIndex].matchScore =
                     (IF analysisResult'.hasScore THEN analysisResult'.matchScore
                      ELSE 0)
              /\ state'.applications[appIndex].matchReason =
                     analysisResult'.matchReason
              /\ C22_OnlyWrites(appIndex, {"matchScore", "matchReason"})
       /\ pc = "cover" =>
              /\ currentJob = state.applications[appIndex].jobId
              /\ \E answer \in CoverAnswers :
                     state'.applications[appIndex].coverLetter =
                         CoverLetterProcess(state.profile,
                                            state.applications[appIndex].jobId,
                                            state.errors, llm, answer).coverLetter
              /\ ~llm => state'.applications[appIndex].coverLetter.company =
                             JobCompany(state.applications[appIndex].jobId)
              /\ C22_OnlyWrites(appIndex, {"coverLetter"})
       /\ pc \in {"step3", "app", "finish", "catch"} =>
              state'.applications = state.applications
       /\ (pc' = "done" /\ thrown' = "" /\ state'.profile.defined
           /\ state'.applicationsDefined) =>
              /\ appIndex' = Len(state'.applications) + 1 \/ state'.applications = <<>>
              /\ state'.applications =
                     [i \in 1..Len(currentState.applications) |->
                         [currentState.applications[i] EXCEPT
                             !.matchScore = state'.applications[i].matchScore,
                             !.matchReason = state'.applications[i].matchReason,
                             !.coverLetter = state'.applications[i].coverLetter]]
              /\ \A i \in 1..Len(state'.applications) :
                     /\ FindJob(state'.jobs, state'.applications[i].jobId).found
                     /\ llm => state'.applications[i].matchScore
                                   \in {0} \cup {a.score : a \in FitAnswers}
                     /\ ~llm =>
                            /\ state'.applications[i].matchScore = DemoScore
                            /\ state'.applications[i].matchReason = DemoReason
                            /\ state'.applications[i].coverLetter.jobTitle =
                                   JobTitle(state'.applications[i].jobId)]_vars

\* With a backend that ranked job 2 first, the record of job 2 carries the
\* score and reason of its analysis and the model's letter, while the record
\* of job 1, whose analysis and letter failed, carries score 0 and no letter.
C22_Witness ==
    /\ llm
    /\ pc = "done"
    /\ thrown = ""
    /\ Len(Produced) = 2
    /\ Produced[1].jobId = 2
    /\ Produced[1].matchScore = 40
    /\ Produced[1].matchReason = "Partial overlap"
    /\ Produced[1].coverLetter.kind = "model"
    /\ Produced[2].jobId = 1
    /\ Produced[2].matchScore = 0
    /\ Produced[2].coverLetter.kind = "undefined"

\* C23: every return of the fit analysis overwrites state.skillGap with the
\* skillGap of its result for the application at hand (undefined when that
\* analysis failed), nothing else writes the slot, and after a run that
\* processed at least one application the slot holds what the analysis of
\* the last processed application returned.
C23_LastSkillGapSurvives ==
    [][/\ pc = "fit" =>
              /\ state'.skillGap = analysisResult'.skillGap
              /\ \E answer \in FitAnswers :
                     state'.skillGap =
                         JobAnalyzerProcess(state.profile,
                                            state.applications[appIndex].jobId,
                                            state.errors, llm, answer).skillGap
       /\ pc # "fit" =>
              /\ state'.skillGap = state.skillGap
              /\ analysisResult' = analysisResult
       /\ appIndex = 0 => state.skillGap = NoSkillGap
       /\ (pc' = "done" /\ appIndex' > 1) =>
              /\ state'.skillGap = analysisResult'.skillGap
              /\ appIndex' - 1 = Len(state'.applications)
              /\ \E k \in 1..Len(stages') :
                     /\ stages'[k] =
                            StageEvent("return", "FitAnalysisStage", appIndex' - 1)
                     /\ \A n \in (k + 1)..Len(stages') :
                            stages'[n].stage # "FitAnalysisStage"]_vars

\* The analysis of the first application failed and that of the second gave
\* a report: at the end of the run the slot holds the second's report.
C23_Witness ==
    /\ llm
    /\ pc = "done"
    /\ thrown = ""
    /\ Len(Produced) = 2
    /\ Produced[1].matchScore = 0
    /\ Produced[1].matchReason = ""
    /\ Produced[2].matchScore = 40
    /\ state.skillGap.defined
    /\ state.skillGap.analysis = "from the model"
    /\ state.skillGap = analysisResult.skillGap

\* C24: every record the queuing loop creates has status PENDING and the id
\* (jobId, Date.now(), number of records created before it in this run), and
\* no two records of a run share an id, whether the loop's list or the
\* state's, even for the same job at the same timestamp.
C24_UniqueIds ==
    [][/\ Len(applications') = Len(applications) + 1 =>
              LET created == applications'[Len(applications')] IN
              /\ created.status = "PENDING"
              /\ created.jobId = prioritizedJobs[processedCount + 1]
              /\ created.id = <<created.jobId, clock', Len(applications)>>
              /\ \A i \in 1..Len(applications) : applications[i].id # created.id
       /\ \A i, j \in 1..Len(applications') :
              applications'[i].id = applications'[j].id => i = j
       /\ \A i, j \in 1..Len(Produced') :
              Produced'[i].id = Produced'[j].id => i = j]_vars

\* The ranked list named job 1 twice and both records were created at the
\* same reading of the clock.
C24_Witness ==
    /\ pc = "done"
    /\ Len(Produced) = 2
    /\ Produced[1].jobId = Produced[2].jobId
    /\ Produced[1].id[2] = Produced[2].id[2]
    /\ Produced[1].id # Produced[2].id

\* C25: when process returns from the end of its try block, its result has
\* status completed, the records of the loop as applications, currentJobIndex
\* equal to their number, and its logs end with one info entry "Queued
\* application for <job>" per record, in creation order, right after the
\* prioritization entry, followed by the one summary entry that names the
\* count; run copies index and status into its state.
C25_CompletesWithCount ==
    [][(pc = "queue" /\ pc' = "step3"
        /\ ~HasLog(currentState'.logs, "Orchestration failed", 0, "error")) =>
          LET result == currentState'
              n == Len(result.applications)
              base == Len(result.logs) - n - 1
          IN /\ result.status = "completed"
             /\ result.applicationsDefined
             /\ result.applications = applications
             /\ result.currentJobIndex = n
             /\ base >= 1
             /\ result.logs[base].text =
                    "Jobs prioritized by match quality and opportunity"
             /\ \A i \in 1..n :
                    result.logs[base + i] =
                        Log("Queued application for", result.applications[i].jobId,
                            "", "info")
             /\ result.logs[Len(result.logs)] =
                    Log("Orchestration completed. applications queued.", n, "",
                        "info")
             /\ Len(SelectSeq(result.logs,
                              LAMBDA e : e.text = "Queued application for")) = n
             /\ Len(SelectSeq(result.logs,
                              LAMBDA e : e.text =
                                  "Orchestration completed. applications queued."))
                    = 1
             /\ state'.currentJobIndex = n
             /\ state'.status = "completed"
             /\ state'.logs = result.logs]_vars

\* The stage completed with one record for two ranked jobs.
C25_Witness ==
    /\ pc = "step3"
    /\ currentState.status = "completed"
    /\ Len(currentState.applications) = 1
    /\ Len(currentState.jobs) = 2
    /\ currentState.currentJobIndex = 1
    /\ HasLog(currentState.logs, "Orchestration completed. applications queued.",
              1, "info")

\* C26: the records reference a prefix of the ranked jobs (applications[i]
\* references ranked job i), no job after the caller's cap gets a record,
\* every record is PENDING, state.jobs holds every ranked job, and with no
\* backend the ranked sequence is the caller's input order.
C26_PrefixOfRanked ==
    state.applicationsDefined =>
        /\ Len(Produced) <= Len(state.jobs)
        /\ \A i \in 1..Len(Produced) :
               /\ Produced[i].jobId = state.jobs[i]
               /\ Produced[i].status = "PENDING"
        /\ \A i \in 1..Len(state.jobs) : i > CallerCap => i > Len(Produced)
        /\ state.jobs = prioritizedJobs
        /\ ~llm => state.jobs = initialState.jobs

\* C27: no step of run calls shouldApply; when the queuing loop ends on a
\* ranked list of n jobs (no entry undefined) the stage holds a record for
\* each of the first min(cap, n) ranked jobs, cap being the caller's
\* maxApplications (5 when omitted), whatever score a record got; and
\* whatever score and isMatch the fit analysis returns, the cover letter
\* stage is called next for the same application.
C27_NeverGated ==
    [][/\ decision' = NoDecision
       /\ (pc = "queue" /\ pc' = "step3"
           /\ \A i \in 1..Len(prioritizedJobs) : prioritizedJobs[i] # UndefinedJob) =>
              /\ Len(Produced') = Min(CallerCap, Len(prioritizedJobs))
              /\ \A i \in 1..Len(Produced') :
                     Produced'[i].jobId = prioritizedJobs[i]
       /\ pc = "fit" =>
              /\ pc' = "cover"
              /\ appIndex' = appIndex
              /\ stages'[Len(stages')] =
                     StageEvent("call", "CoverLetterStage", appIndex)]_vars

\* C28: every record is PENDING when the queuing loop creates it and no
\* step of run or of the stages changes the status of a record: in every
\* state of a run, the returned one included, completed or error, every
\* record of the loop, of the stage's result and of run's state is PENDING.
C28_StatusStaysPending ==
    [][/\ \A i \in 1..Len(applications') : applications'[i].status = "PENDING"
       /\ \A i \in 1..Len(currentState'.applications) :
              currentState'.applications[i].status = "PENDING"
       /\ \A i \in 1..Len(state'.applications) :
              state'.applications[i].status = "PENDING"
       /\ \A i \in 1..Len(state.applications) :
              i <= Len(state'.applications) =>
                  state'.applications[i].status = state.applications[i].status]_vars

\* A run with a backend ended completed with one record whose analysis
\* failed (score 0, no match) and one whose letter failed.
C28_Witness ==
    /\ llm
    /\ pc = "done"
    /\ state.status = "completed"
    /\ Len(Produced) = 2
    /\ Produced[1].matchScore = 0
    /\ Produced[2].matchScore = 40
    /\ Produced[2].coverLetter.kind = "undefined"
    /\ \A i \in 1..2 : Produced[i].status = "PENDING"

\* The caller supplied a profile and a resume file, and the parse failed.
C29_ParseFailedOverProfile ==
    /\ initialState.resumeFile # NoFile
    /\ initialState.profile.defined
    /\ HasError(state.errors, "Resume parsing failed")

\* Step 1 assigns the resume stage's parsedProfile to state.profile.
C29_ProfileIsParsedProfile ==
    pc = "resume" =>
        \E pdfParses \in BOOLEAN, answer \in EnhanceAnswers :
            state'.profile =
                ResumeParserProcess(state.resumeFile, state.errors, pdfParses,
                                    llm, answer).parsedProfile

\* C29 as stated: after step 1 of a run given a resume file the profile is
\* the resume stage's parsedProfile; if the caller supplied a profile and the
\* parse fails, the profile is undefined, the decision stage reports the
\* missing profile, and the run returns no applications.
C29_DecisionStageReports ==
    [][/\ C29_ProfileIsParsedProfile
       /\ (pc' = "done" /\ C29_ParseFailedOverProfile') =>
              /\ ~state'.profile.defined
              /\ HasLog(state'.logs, "Profile and jobs required for orchestration",
                        0, "error")
              /\ Len(Produced') = 0]_vars

\* C29 amended: the same, except that the decision stage reports the missing
\* profile when the run has a non-empty job list; with the job list absent
\* or empty the stage is not called and reports nothing.
C29_ParsedProfileReplaces ==
    [][/\ C29_ProfileIsParsedProfile
       /\ (pc' = "done" /\ C29_ParseFailedOverProfile') =>
              /\ ~state'.profile.defined
              /\ Len(Produced') = 0
              /\ ~state'.applicationsDefined
              /\ (initialState.jobsDefined /\ Len(initialState.jobs) > 0) =>
                     /\ HasLog(state'.logs,
                               "Profile and jobs required for orchestration", 0,
                               "error")
                     /\ stages' =
                            <<StageEvent("call", "ResumeStage", 0),
                              StageEvent("return", "ResumeStage", 0),
                              StageEvent("call", "ApplicationDecisionStage", 0),
                              StageEvent("return", "ApplicationDecisionStage", 0)>>
              /\ ~(initialState.jobsDefined /\ Len(initialState.jobs) > 0) =>
                     /\ ~HasLog(state'.logs,
                                "Profile and jobs required for orchestration", 0,
                                "error")
                     /\ stages' = <<StageEvent("call", "ResumeStage", 0),
                                    StageEvent("return", "ResumeStage", 0)>>]_vars

\* A caller with a profile uploaded a file of an unsupported type together
\* with two jobs: the run ended without profile and without applications.
C29_Witness ==
    /\ pc = "done"
    /\ C29_ParseFailedOverProfile
    /\ initialState.resumeFile = "image/png"
    /\ Len(initialState.jobs) = 2
    /\ ~state.profile.defined
    /\ ~state.applicationsDefined
    /\ state.status = "completed"
    /\ HasLog(state.logs, "Profile and jobs required for orchestration", 0, "error")

\* The ranking call threw, or its answer is no JSON, has no priorities list,
\* or names an index outside the job list.
C30_RankingUnusable(answer) ==
    \/ answer.kind \in {"callFails", "notJSON", "noPriorities"}
    \/ /\ answer.kind = "json"
       /\ \E i \in 1..Len(answer.priorities) :
              answer.priorities[i] >= Len(initialState.jobs)

\* C30: with a backend, when the ranking call throws or its answer cannot be
\* used, process returns (nothing reaches run's catch block) with status
\* error and one more log entry, "Orchestration failed: <message>" at error
\* level, without applications, with the errors it was given and with the
\* caller's job list; run then ends with status completed.
C30_RankingFailureContained ==
    [][/\ (llm /\ pc \in {"rank", "queue"} /\ C30_RankingUnusable(rankingAnswer')) =>
              pc' # "catch"
       /\ (llm /\ pc \in {"rank", "queue"} /\ pc' = "step3"
           /\ C30_RankingUnusable(rankingAnswer')) =>
              /\ thrown' = ""
              /\ currentState'.status = "error"
              /\ currentState'.logs[Len(currentState'.logs)].text =
                     "Orchestration failed"
              /\ currentState'.logs[Len(currentState'.logs)].type = "error"
              /\ Len(SelectSeq(currentState'.logs,
                               LAMBDA e : e.text = "Orchestration failed")) = 1
              /\ ~currentState'.applicationsDefined
              /\ Len(Produced') = 0
              /\ currentState'.errors = state.errors
              /\ state'.errors = state.errors
              /\ state'.jobs = initialState.jobs
       /\ (llm /\ pc' = "done" /\ C30_RankingUnusable(rankingAnswer')) =>
              /\ thrown' = ""
              /\ state'.status = "completed"]_vars

====
